---------------------------- MODULE Spec2Model ----------------------------
(***************************************************************************)
(* Model of the two FGD comparison scripts of this repository:             *)
(*   src/fgdcomparator.py            (sorted lists, backward-porting       *)
(*                                    issues, porting complexity)          *)
(*   src/csgo_to_css_comparison.py   (editor data, grouped spawnflags,     *)
(*                                    input/output type check)             *)
(* Both expose compare_fgds(css_fgd, csgo_fgd).  The state is the pair of  *)
(* parsed schemas handed to main(), the script that ran and the report it  *)
(* produced.  Definitions of the first script carry its names; those of    *)
(* the second script carry the suffix 2.                                   *)
(*                                                                         *)
(* Python values are encoded as follows.                                   *)
(*   str used as identity  -> sequence of one-character strings, so that   *)
(*                            str.lower() and sorted() are computed        *)
(*   opaque str            -> TLA+ string                                  *)
(*   None / absent key     -> <<>>  ;  a present value v -> <<v>>          *)
(*   input dict (lookup)   -> function from its key set                    *)
(*   output dict           -> sequence of [key, value] in insertion order  *)
(*   iteration over a set  -> any order (hash order is not specified)      *)
(***************************************************************************)
EXTENDS Integers, Sequences, FiniteSets, TLC

VARIABLES css_fgd, csgo_fgd, pc, script, differences

vars == <<css_fgd, csgo_fgd, pc, script, differences>>

-----------------------------------------------------------------------------
(* Characters, str.lower(), int() and the ordering used by sorted().       *)

Digits == <<"0", "1", "2", "3", "4", "5", "6", "7", "8", "9">>

UpperCase == <<"A", "B", "C", "D", "E", "F", "G", "H", "I", "J", "K", "L", "M",
               "N", "O", "P", "Q", "R", "S", "T", "U", "V", "W", "X", "Y", "Z">>

LowerCase == <<"a", "b", "c", "d", "e", "f", "g", "h", "i", "j", "k", "l", "m",
               "n", "o", "p", "q", "r", "s", "t", "u", "v", "w", "x", "y", "z">>

\* The characters in code point order: digits < upper case < "_" < lower case.
Ascii == Digits \o UpperCase \o <<"_">> \o LowerCase

IndexOf(c, tbl) == CHOOSE i \in 1..Len(tbl) : tbl[i] = c

IsIn(c, tbl) == \E i \in 1..Len(tbl) : tbl[i] = c

\* Position of c in code point order (what < on one-character strings compares).
Ord(c) == IndexOf(c, Ascii)

LowerChar(c) == IF IsIn(c, UpperCase) THEN LowerCase[IndexOf(c, UpperCase)] ELSE c

\* str.lower()
Lower(s) == [i \in 1..Len(s) |-> LowerChar(s[i])]

\* s < t on Python strings: lexicographic by code point, a proper prefix first.
RECURSIVE StrLess(_, _)
StrLess(s, t) ==
    IF t = <<>> THEN FALSE
    ELSE IF s = <<>> THEN TRUE
    ELSE IF s[1] # t[1] THEN Ord(s[1]) < Ord(t[1])
    ELSE StrLess(Tail(s), Tail(t))

\* int(text) succeeds on a non-empty string of decimal digits.
IsIntText(s) == s # <<>> /\ \A i \in 1..Len(s) : IsIn(s[i], Digits)

RECURSIVE ParseInt(_)
ParseInt(s) ==
    IF s = <<>> THEN 0
    ELSE 10 * ParseInt(SubSeq(s, 1, Len(s) - 1)) + (IndexOf(s[Len(s)], Digits) - 1)

\* str(n) for n >= 0.
RECURSIVE IntStr(_)
IntStr(n) ==
    IF n < 10 THEN <<Digits[n + 1]>>
    ELSE Append(IntStr(n \div 10), Digits[(n % 10) + 1])

-----------------------------------------------------------------------------
(* Python collections.                                                     *)

None == <<>>

Some(v) == <<v>>

IsNone(o) == o = <<>>

Range(seq) == {seq[i] : i \in 1..Len(seq)}

\* Every order in which a set can be iterated.
RECURSIVE Orders(_)
Orders(S) ==
    IF S = {} THEN {<<>>}
    ELSE UNION {{<<x>> \o rest : rest \in Orders(S \ {x})} : x \in S}

\* sorted(S) for a set of strings.
RECURSIVE SortedStrs(_)
SortedStrs(S) ==
    IF S = {} THEN <<>>
    ELSE LET m == CHOOSE x \in S : \A y \in S \ {x} : StrLess(x, y)
         IN <<m>> \o SortedStrs(S \ {m})

\* sorted(seq, key=...), a stable sort; less[i][j] says that the key of seq[i] is
\* smaller than the key of seq[j].
SortBy(seq, less) ==
    LET Rank(i) == Cardinality({j \in 1..Len(seq) :
                                  less[j][i] \/ (~less[i][j] /\ j < i)}) + 1
    IN [r \in 1..Len(seq) |-> seq[CHOOSE i \in 1..Len(seq) : Rank(i) = r]]

\* The identities the scripts key their dicts and sets by.
PropKey(prop) == Lower(prop.name)

PropName(p) == p.name

IoKey(io) == Lower(io.name)

EntityKey(e) == Lower(e.name)

FlagKey(flag) == ParseInt(flag.value)

ChoiceValue(c) == c.value

\* get_key: (class_type, name) if name else (class_type,)
get_key(ed) == IF ed.name # "" THEN <<ed.class_type, ed.name>> ELSE <<ed.class_type>>

\* The key expression named `key`, applied to x.
KeyOf(key, x) ==
    CASE key = "PropKey" -> PropKey(x)
      [] key = "PropName" -> PropName(x)
      [] key = "IoKey" -> IoKey(x)
      [] key = "EntityKey" -> EntityKey(x)
      [] key = "FlagKey" -> FlagKey(x)
      [] key = "ChoiceValue" -> ChoiceValue(x)
      [] key = "get_key" -> get_key(x)

\* {key(x): x for x in items}: the keys, and for each key the LAST item carrying it.
DictKeys(items, key) == {KeyOf(key, items[i]) : i \in 1..Len(items)}

DictGet(items, key, k) ==
    LET last == CHOOSE i \in 1..Len(items) :
                    /\ KeyOf(key, items[i]) = k
                    /\ \A j \in (i + 1)..Len(items) : KeyOf(key, items[j]) # k
    IN items[last]

\* next(x for x in items if key(x) == k): the FIRST item carrying the key.
NextWith(items, key, k) ==
    LET first == CHOOSE i \in 1..Len(items) :
                     /\ KeyOf(key, items[i]) = k
                     /\ \A j \in 1..(i - 1) : KeyOf(key, items[j]) # k
    IN items[first]

\* d[k] = v on an output dict: a new key is appended, an existing one keeps its place.
DictPut(d, k, v) ==
    IF \E i \in 1..Len(d) : d[i].key = k
    THEN [i \in 1..Len(d) |-> IF d[i].key = k THEN [key |-> k, value |-> v] ELSE d[i]]
    ELSE Append(d, [key |-> k, value |-> v])

OutKeys(d) == {d[i].key : i \in 1..Len(d)}

OutGet(d, k) == (CHOOSE e \in Range(d) : e.key = k).value

-----------------------------------------------------------------------------
(* src/fgdcomparator.py                                                     *)

\* `if a != b: differences[attr] = {'css': a, 'csgo': b}`
AttrDiff(a, b) == IF a # b THEN Some([css |-> a, csgo |-> b]) ELSE None

\* A diff dict whose keys are all absent is the empty dict, which is falsy.
RECURSIVE BuildDict(_)
BuildDict(entries) ==
    IF entries = <<>> THEN <<>>
    ELSE LET d == BuildDict(SubSeq(entries, 1, Len(entries) - 1))
             e == entries[Len(entries)]
         IN IF IsNone(e.value) THEN d ELSE DictPut(d, e.key, e.value[1])

IsBase(d) == d.name = <<"b", "a", "s", "e">>

SelectBases(defs) == SelectSeq(defs, IsBase)

compare_definitions(css_defs, csgo_defs) ==
    LET css_bases == SelectBases(css_defs)
        csgo_bases == SelectBases(csgo_defs)
        NotInCss(b) == b \notin Range(css_bases)
        NotInCsgo(b) == b \notin Range(csgo_bases)
    IN IF css_bases # csgo_bases
       THEN Some([css |-> css_bases,
                  csgo |-> csgo_bases,
                  changes |-> [added |-> SelectSeq(csgo_bases, NotInCss),
                               removed |-> SelectSeq(css_bases, NotInCsgo)]])
       ELSE None

\* [c.schema for c in choices] if choices else None
ChoiceSchemas(choices) ==
    IF IsNone(choices) \/ choices[1] = <<>> THEN None ELSE Some(choices[1])

compare_property(css_prop, csgo_prop) ==
    LET d == [value_type    |-> AttrDiff(css_prop.value_type, csgo_prop.value_type),
              readonly      |-> AttrDiff(css_prop.readonly, csgo_prop.readonly),
              report        |-> AttrDiff(css_prop.report, csgo_prop.report),
              display_name  |-> AttrDiff(css_prop.display_name, csgo_prop.display_name),
              default_value |-> AttrDiff(css_prop.default_value, csgo_prop.default_value),
              description   |-> AttrDiff(css_prop.description, csgo_prop.description),
              choices       |-> IF css_prop.choices # csgo_prop.choices
                                THEN Some([css |-> ChoiceSchemas(css_prop.choices),
                                           csgo |-> ChoiceSchemas(csgo_prop.choices)])
                                ELSE None]
    IN IF \A f \in DOMAIN d : IsNone(d[f]) THEN None ELSE Some(d)

\* order: the iteration order of set(css_prop_dict) & set(csgo_prop_dict).
compare_properties(css_props, csgo_props, order) ==
    LET css_keys == DictKeys(css_props, "PropKey")
        csgo_keys == DictKeys(csgo_props, "PropKey")
        entries == [i \in 1..Len(order) |->
                      LET css_prop == DictGet(css_props, "PropKey", order[i])
                          csgo_prop == DictGet(csgo_props, "PropKey", order[i])
                      IN [key |-> csgo_prop.name,
                          value |-> compare_property(css_prop, csgo_prop)]]
        d == [new |-> SortedStrs(csgo_keys \ css_keys),
              removed |-> SortedStrs(css_keys \ csgo_keys),
              modified |-> BuildDict(entries)]
    IN IF d.new # <<>> \/ d.removed # <<>> \/ d.modified # <<>> THEN Some(d) ELSE None

PropertiesOutcomes(css_props, csgo_props) ==
    {compare_properties(css_props, csgo_props, order) :
        order \in Orders(DictKeys(css_props, "PropKey") \cap DictKeys(csgo_props, "PropKey"))}

\* Variant: only the display name is compared.
compare_spawnflag_name_only(css_flag, csgo_flag) ==
    LET d == [display_name  |-> AttrDiff(css_flag.display_name, csgo_flag.display_name),
              default_value |-> None]
    IN IF \A f \in DOMAIN d : IsNone(d[f]) THEN None ELSE Some(d)

compare_spawnflag(css_flag, csgo_flag) ==
    LET d == [display_name  |-> AttrDiff(css_flag.display_name, csgo_flag.display_name),
              default_value |-> AttrDiff(css_flag.default_value, csgo_flag.default_value)]
    IN IF \A f \in DOMAIN d : IsNone(d[f]) THEN None ELSE Some(d)

\* The loop over all_values, in the given iteration order.
RECURSIVE SpawnflagLoop(_, _, _)
SpawnflagLoop(css_flags, csgo_flags, order) ==
    IF order = <<>> THEN [new |-> <<>>, removed |-> <<>>, modified |-> <<>>]
    ELSE LET d == SpawnflagLoop(css_flags, csgo_flags, SubSeq(order, 1, Len(order) - 1))
             value == order[Len(order)]
             in_css == value \in DictKeys(css_flags, "FlagKey")
             in_csgo == value \in DictKeys(csgo_flags, "FlagKey")
         IN IF in_css /\ ~in_csgo
            THEN [d EXCEPT !.removed = Append(@, DictGet(css_flags, "FlagKey", value))]
            ELSE IF in_csgo /\ ~in_css
            THEN [d EXCEPT !.new = Append(@, DictGet(csgo_flags, "FlagKey", value))]
            ELSE LET flag_diff == compare_spawnflag(DictGet(css_flags, "FlagKey", value),
                                                    DictGet(csgo_flags, "FlagKey", value))
                 IN IF IsNone(flag_diff) THEN d
                    ELSE [d EXCEPT !.modified = DictPut(@, IntStr(value), flag_diff[1])]

\* int(flag.value) raises ValueError on a value that is no integer.
SpawnflagsRaise(css_flags, csgo_flags) ==
    \E f \in Range(css_flags) \cup Range(csgo_flags) : ~IsIntText(f.value)

compare_spawnflags(css_flags, csgo_flags, order) ==
    LET d == SpawnflagLoop(css_flags, csgo_flags, order)
    IN IF d.new # <<>> \/ d.removed # <<>> \/ d.modified # <<>> THEN Some(d) ELSE None

SpawnflagsOutcomes(css_flags, csgo_flags) ==
    {compare_spawnflags(css_flags, csgo_flags, order) :
        order \in Orders(DictKeys(css_flags, "FlagKey") \cup DictKeys(csgo_flags, "FlagKey"))}

compare_io_item(css_io, csgo_io) ==
    LET d == [value_type  |-> AttrDiff(css_io.value_type, csgo_io.value_type),
              description |-> AttrDiff(css_io.description, csgo_io.description)]
    IN IF \A f \in DOMAIN d : IsNone(d[f]) THEN None ELSE Some(d)

\* Variant: 'removed' repeats the set difference of 'new'.
compare_io_removed_as_new(css_io, csgo_io, order) ==
    LET css_keys == DictKeys(css_io, "IoKey")
        csgo_keys == DictKeys(csgo_io, "IoKey")
        entries == [i \in 1..Len(order) |->
                      LET css_io_item == DictGet(css_io, "IoKey", order[i])
                          csgo_io_item == DictGet(csgo_io, "IoKey", order[i])
                      IN [key |-> csgo_io_item.name,
                          value |-> compare_io_item(css_io_item, csgo_io_item)]]
        d == [new |-> SortedStrs(csgo_keys \ css_keys),
              removed |-> SortedStrs(csgo_keys \ css_keys),
              modified |-> BuildDict(entries)]
    IN IF d.new # <<>> \/ d.removed # <<>> \/ d.modified # <<>> THEN Some(d) ELSE None

compare_io(css_io, csgo_io, order) ==
    LET css_keys == DictKeys(css_io, "IoKey")
        csgo_keys == DictKeys(csgo_io, "IoKey")
        entries == [i \in 1..Len(order) |->
                      LET css_io_item == DictGet(css_io, "IoKey", order[i])
                          csgo_io_item == DictGet(csgo_io, "IoKey", order[i])
                      IN [key |-> csgo_io_item.name,
                          value |-> compare_io_item(css_io_item, csgo_io_item)]]
        d == [new |-> SortedStrs(csgo_keys \ css_keys),
              removed |-> SortedStrs(css_keys \ csgo_keys),
              modified |-> BuildDict(entries)]
    IN IF d.new # <<>> \/ d.removed # <<>> \/ d.modified # <<>> THEN Some(d) ELSE None

IoOutcomes(css_io, csgo_io) ==
    {compare_io(css_io, csgo_io, order) :
        order \in Orders(DictKeys(css_io, "IoKey") \cap DictKeys(csgo_io, "IoKey"))}

count_changes(diff) ==
    IF IsNone(diff) THEN [new |-> 0, removed |-> 0, modified |-> 0]
    ELSE [new |-> Len(diff[1].new),
          removed |-> Len(diff[1].removed),
          modified |-> Len(diff[1].modified)]

\* The score has halves (1.5, 0.5): it is kept doubled, as an integer.
complexity_score2(differences_) ==
    LET changes_summary == differences_.changes_summary
    IN (IF ~IsNone(differences_.class_type) THEN 2 * 3 ELSE 0)
       + (IF ~IsNone(differences_.definitions)
          THEN 2 * (Len(differences_.definitions[1].changes.added) * 2)
               + 2 * (Len(differences_.definitions[1].changes.removed) * 2)
          ELSE 0)
       + 2 * (changes_summary.properties.new * 2)
       + 2 * (changes_summary.properties.removed * 2)
       + 2 * changes_summary.properties.modified
       + changes_summary.inputs.new * 3
       + changes_summary.inputs.removed * 3
       + changes_summary.inputs.modified
       + changes_summary.outputs.new * 3
       + changes_summary.outputs.removed * 3
       + changes_summary.outputs.modified
       + 2 * changes_summary.spawnflags.new
       + 2 * changes_summary.spawnflags.removed
       + changes_summary.spawnflags.modified

\* Variant: the thresholds are inclusive.
calculate_porting_complexity_inclusive(differences_) ==
    LET complexity_score2_ == complexity_score2(differences_)
    IN IF complexity_score2_ >= 2 * 20 THEN "High"
       ELSE IF complexity_score2_ >= 2 * 10 THEN "Medium"
       ELSE "Low"

calculate_porting_complexity(differences_) ==
    LET complexity_score2_ == complexity_score2(differences_)
    IN IF complexity_score2_ > 2 * 20 THEN "High"
       ELSE IF complexity_score2_ > 2 * 10 THEN "Medium"
       ELSE "Low"

\* `if differences:` (lines 93-102): a non-empty diff gets its change summary and
\* its complexity; an empty one is returned as it is (falsy).
Summarise(d) ==
    LET summary == [properties |-> count_changes(d.properties),
                    inputs     |-> count_changes(d.inputs),
                    outputs    |-> count_changes(d.outputs),
                    spawnflags |-> count_changes(d.spawnflags)]
        withSummary == [f \in DOMAIN d \cup {"changes_summary"} |->
                          IF f = "changes_summary" THEN summary ELSE d[f]]
    IN IF \A f \in DOMAIN d : IsNone(d[f]) THEN None
       ELSE Some([f \in DOMAIN withSummary \cup {"backward_porting_complexity"} |->
                    IF f = "backward_porting_complexity"
                    THEN calculate_porting_complexity(withSummary)
                    ELSE withSummary[f]])

\* The entity diff given the diffs of its collections (each None when falsy).
EntityDiff(css_entity, csgo_entity, prop_diff, spawnflag_diff, input_diff, output_diff) ==
    LET d == [class_type  |-> AttrDiff(css_entity.class_type, csgo_entity.class_type),
              description |-> AttrDiff(css_entity.description, csgo_entity.description),
              definitions |-> compare_definitions(css_entity.definitions,
                                                  csgo_entity.definitions),
              properties  |-> prop_diff,
              spawnflags  |-> spawnflag_diff,
              inputs      |-> input_diff,
              outputs     |-> output_diff]
    IN Summarise(d)

\* Every diff compare_entity can return, over the iteration orders of its sets.
compare_entity(css_entity, csgo_entity) ==
    {EntityDiff(css_entity, csgo_entity, pd, sd, id, od) :
        pd \in PropertiesOutcomes(css_entity.properties, csgo_entity.properties),
        sd \in SpawnflagsOutcomes(css_entity.spawnflags, csgo_entity.spawnflags),
        id \in IoOutcomes(css_entity.inputs, csgo_entity.inputs),
        od \in IoOutcomes(css_entity.outputs, csgo_entity.outputs)}

EntityRaises(css_entity, csgo_entity) ==
    SpawnflagsRaise(css_entity.spawnflags, csgo_entity.spawnflags)

EntityNames(fgd) == DictKeys(fgd.entities, "EntityKey")

\* Variant: the diff is stored under the old entity's name.
ModifiedEntitiesOldName(css_fgd_, csgo_fgd_, order, diffs) ==
    BuildDict([i \in 1..Len(order) |->
                 [key |-> NextWith(css_fgd_.entities, "EntityKey", order[i]).name,
                  value |-> diffs[order[i]]]])

\* for entity_name in common_entities: ... (lines 30-36), in the given order, with
\* diffs[k] the diff compare_entity returned for entity k.
ModifiedEntities(css_fgd_, csgo_fgd_, order, diffs) ==
    BuildDict([i \in 1..Len(order) |->
                 [key |-> NextWith(csgo_fgd_.entities, "EntityKey", order[i]).name,
                  value |-> diffs[order[i]]]])

\* Variant: the old side's names are lower-cased, the new side's are not.
CsgoOnlyPropertiesHalfLowered(css_entity, csgo_entity) ==
    DictKeys(csgo_entity.properties, "PropName") \ DictKeys(css_entity.properties, "PropKey")

CsgoOnlyProperties(css_entity, csgo_entity) ==
    DictKeys(csgo_entity.properties, "PropName") \ DictKeys(css_entity.properties, "PropName")

\* Variant: the old entity is looked up by its name as written, not lower-cased.
EntityIssuesRawLookup(css_fgd_, csgo_fgd_, entity_name, prop_order) ==
    IF entity_name \notin DictKeys(css_fgd_.entities, "PropName")
    THEN <<[entity |-> entity_name,
            property |-> None,
            issue |-> "New entity in CSGO, not present in CSS",
            severity |-> "High"]>>
    ELSE [i \in 1..Len(prop_order) |->
            [entity |-> entity_name,
             property |-> Some(prop_order[i]),
             issue |-> "Property exists in CSGO but not in CSS",
             severity |-> "Medium"]]

\* The issues of one entity of the new schema (lines 40-57); prop_order is the
\* iteration order of csgo_only_properties.
EntityIssues(css_fgd_, csgo_fgd_, entity_name, prop_order) ==
    IF entity_name \notin EntityNames(css_fgd_)
    THEN <<[entity |-> entity_name,
            property |-> None,
            issue |-> "New entity in CSGO, not present in CSS",
            severity |-> "High"]>>
    ELSE [i \in 1..Len(prop_order) |->
            [entity |-> entity_name,
             property |-> Some(prop_order[i]),
             issue |-> "Property exists in CSGO but not in CSS",
             severity |-> "Medium"]]

RECURSIVE BackwardPortingIssues(_, _, _, _)
BackwardPortingIssues(css_fgd_, csgo_fgd_, order, prop_orders) ==
    IF order = <<>> THEN <<>>
    ELSE BackwardPortingIssues(css_fgd_, csgo_fgd_,
                               SubSeq(order, 1, Len(order) - 1), prop_orders)
         \o EntityIssues(css_fgd_, csgo_fgd_, order[Len(order)],
                         prop_orders[order[Len(order)]])

\* The iteration orders csgo_only_properties can take, per entity of the new schema.
PropOrders(css_fgd_, csgo_fgd_, entity_name) ==
    IF entity_name \notin EntityNames(css_fgd_) THEN {<<>>}
    ELSE Orders(CsgoOnlyProperties(NextWith(css_fgd_.entities, "EntityKey", entity_name),
                                   NextWith(csgo_fgd_.entities, "EntityKey", entity_name)))

\* All functions that take at each k of the domain of `choices` a value of choices[k].
Pick(choices) ==
    {f \in [DOMAIN choices -> UNION {choices[k] : k \in DOMAIN choices}] :
        \A k \in DOMAIN choices : f[k] \in choices[k]}

\* Every report compare_fgds can return at time `now`: one per choice of the
\* iteration orders of the sets it loops over.
compare_fgds(css_fgd_, csgo_fgd_, now) ==
    LET css_entity_names == EntityNames(css_fgd_)
        csgo_entity_names == EntityNames(csgo_fgd_)
        common_entities == css_entity_names \cap csgo_entity_names
        Diffs == [k \in common_entities |->
                    compare_entity(NextWith(css_fgd_.entities, "EntityKey", k),
                                   NextWith(csgo_fgd_.entities, "EntityKey", k))]
        POrders == [k \in csgo_entity_names |-> PropOrders(css_fgd_, csgo_fgd_, k)]
    IN {[metadata |-> [css_version |-> "Counter-Strike: Source",
                       csgo_version |-> "Counter-Strike: Global Offensive",
                       comparison_date |-> now],
         new_entities |-> SortedStrs(csgo_entity_names \ css_entity_names),
         removed_entities |-> SortedStrs(css_entity_names \ csgo_entity_names),
         modified_entities |-> ModifiedEntities(css_fgd_, csgo_fgd_, order, diffs),
         backward_porting_issues |->
             BackwardPortingIssues(css_fgd_, csgo_fgd_, issue_order, prop_orders)] :
            order \in Orders(common_entities),
            diffs \in Pick(Diffs),
            issue_order \in Orders(csgo_entity_names),
            prop_orders \in Pick(POrders)}

\* compare_fgds propagates the ValueError of compare_spawnflags.
compare_fgds_raises(css_fgd_, csgo_fgd_) ==
    \E k \in EntityNames(css_fgd_) \cap EntityNames(csgo_fgd_) :
        EntityRaises(NextWith(css_fgd_.entities, "EntityKey", k),
                     NextWith(csgo_fgd_.entities, "EntityKey", k))

-----------------------------------------------------------------------------
(* src/csgo_to_css_comparison.py                                            *)

\* new_order, removed_order, common_order: the iteration orders of the key sets.
compare_editor_data(css_editor_data, csgo_editor_data, new_order, removed_order, common_order) ==
    [new |-> [i \in 1..Len(new_order) |->
                DictGet(csgo_editor_data, "get_key", new_order[i])],
     removed |-> [i \in 1..Len(removed_order) |->
                DictGet(css_editor_data, "get_key", removed_order[i])],
     modified |-> BuildDict([i \in 1..Len(common_order) |->
                [key |-> common_order[i],
                 value |-> AttrDiff(DictGet(css_editor_data, "get_key", common_order[i]).data,
                                    DictGet(csgo_editor_data, "get_key", common_order[i]).data)]])]

EditorDataOutcomes(css_editor_data, csgo_editor_data) ==
    LET css_keys == DictKeys(css_editor_data, "get_key")
        csgo_keys == DictKeys(csgo_editor_data, "get_key")
    IN {compare_editor_data(css_editor_data, csgo_editor_data, n, r, c) :
           n \in Orders(csgo_keys \ css_keys),
           r \in Orders(css_keys \ csgo_keys),
           c \in Orders(css_keys \cap csgo_keys)}

\* Python's < on lists of strings.
RECURSIVE ArgsLess(_, _)
ArgsLess(a, b) ==
    IF b = <<>> THEN FALSE
    ELSE IF a = <<>> THEN TRUE
    ELSE IF a[1] # b[1] THEN StrLess(a[1], b[1])
    ELSE ArgsLess(Tail(a), Tail(b))

\* sorted(d.items()) is [('args', ...), ('name', ...)]: args decide, then the name.
DefLess(d1, d2) ==
    \/ ArgsLess(d1.args, d2.args)
    \/ (d1.args = d2.args /\ StrLess(d1.name, d2.name))

SortedDefinitions(defs) ==
    SortBy(defs, [i \in 1..Len(defs) |-> [j \in 1..Len(defs) |-> DefLess(defs[i], defs[j])]])

ChoiceLess(c1, c2) == c1.value < c2.value

\* sorted([{'value': ..., 'display_name': ...} for c in (choices or [])], key=value)
SortedChoices(choices) ==
    IF IsNone(choices) THEN <<>>
    ELSE LET cs == choices[1]
         IN SortBy(cs, [i \in 1..Len(cs) |-> [j \in 1..Len(cs) |-> ChoiceLess(cs[i], cs[j])]])

\* Variant: readonly is left out of the compared attributes.
compare_property2_no_readonly(css_prop, csgo_prop) ==
    LET css_choices == SortedChoices(css_prop.choices)
        csgo_choices == SortedChoices(csgo_prop.choices)
        d == [value_type    |-> AttrDiff(css_prop.value_type, csgo_prop.value_type),
              readonly      |-> None,
              report        |-> AttrDiff(css_prop.report, csgo_prop.report),
              display_name  |-> AttrDiff(css_prop.display_name, csgo_prop.display_name),
              default_value |-> AttrDiff(css_prop.default_value, csgo_prop.default_value),
              description   |-> AttrDiff(css_prop.description, csgo_prop.description),
              choices       |-> IF ~IsNone(css_prop.choices) \/ ~IsNone(csgo_prop.choices)
                                THEN AttrDiff(css_choices, csgo_choices)
                                ELSE None]
    IN IF \A f \in DOMAIN d : IsNone(d[f]) THEN None ELSE Some(d)

compare_property2(css_prop, csgo_prop) ==
    LET css_choices == SortedChoices(css_prop.choices)
        csgo_choices == SortedChoices(csgo_prop.choices)
        d == [value_type    |-> AttrDiff(css_prop.value_type, csgo_prop.value_type),
              readonly      |-> AttrDiff(css_prop.readonly, csgo_prop.readonly),
              report        |-> AttrDiff(css_prop.report, csgo_prop.report),
              display_name  |-> AttrDiff(css_prop.display_name, csgo_prop.display_name),
              default_value |-> AttrDiff(css_prop.default_value, csgo_prop.default_value),
              description   |-> AttrDiff(css_prop.description, csgo_prop.description),
              choices       |-> IF ~IsNone(css_prop.choices) \/ ~IsNone(csgo_prop.choices)
                                THEN AttrDiff(css_choices, csgo_choices)
                                ELSE None]
    IN IF \A f \in DOMAIN d : IsNone(d[f]) THEN None ELSE Some(d)

\* new_order, removed_order, common_order: the iteration orders of the key sets.
compare_properties2(css_props, csgo_props, new_order, removed_order, common_order) ==
    LET entries == [i \in 1..Len(common_order) |->
                      LET css_prop == DictGet(css_props, "PropKey", common_order[i])
                          csgo_prop == DictGet(csgo_props, "PropKey", common_order[i])
                      IN [key |-> csgo_prop.name,
                          value |-> compare_property2(css_prop, csgo_prop)]]
        d == [new |-> new_order, removed |-> removed_order, modified |-> BuildDict(entries)]
    IN IF css_props = <<>> /\ csgo_props = <<>> THEN None
       ELSE IF d.new # <<>> \/ d.removed # <<>> \/ d.modified # <<>> THEN Some(d)
       ELSE None

PropertiesOutcomes2(css_props, csgo_props) ==
    LET css_keys == DictKeys(css_props, "PropKey")
        csgo_keys == DictKeys(csgo_props, "PropKey")
    IN {compare_properties2(css_props, csgo_props, n, r, c) :
           n \in Orders(csgo_keys \ css_keys),
           r \in Orders(css_keys \ csgo_keys),
           c \in Orders(css_keys \cap csgo_keys)}

\* The flags that int() accepts: the others are printed and skipped.
ValidFlags(flags) == SelectSeq(flags, LAMBDA f : IsIntText(f.value))

\* flag_dict[value]: the flags of that value, in list order.
FlagGroup(flags, value) == SelectSeq(ValidFlags(flags), LAMBDA f : FlagKey(f) = value)

FlagValues(flags) == DictKeys(ValidFlags(flags), "FlagKey")

\* f"{value} ({flag.display_name})"
FlagLabel(value, flag) == [value |-> IntStr(value), display_name |-> flag.display_name]

\* [label for value in order for flag in group(value)]
RECURSIVE FlagLabels(_, _)
FlagLabels(flags, order) ==
    IF order = <<>> THEN <<>>
    ELSE LET group == FlagGroup(flags, order[1])
         IN [i \in 1..Len(group) |-> FlagLabel(order[1], group[i])]
            \o FlagLabels(flags, Tail(order))

compare_spawnflag2(css_flag, csgo_flag) ==
    LET d == [display_name  |-> AttrDiff(css_flag.display_name, csgo_flag.display_name),
              default_value |-> AttrDiff(css_flag.default_value, csgo_flag.default_value)]
    IN IF \A f \in DOMAIN d : IsNone(d[f]) THEN None ELSE Some(d)

Min(a, b) == IF a < b THEN a ELSE b

\* zip(css_flag_list, csgo_flag_list) for each common value, in the given order.
RECURSIVE ZipEntries(_, _, _)
ZipEntries(css_flags, csgo_flags, order) ==
    IF order = <<>> THEN <<>>
    ELSE LET css_flag_list == FlagGroup(css_flags, order[1])
             csgo_flag_list == FlagGroup(csgo_flags, order[1])
         IN [i \in 1..Min(Len(css_flag_list), Len(csgo_flag_list)) |->
               [key |-> FlagLabel(order[1], csgo_flag_list[i]),
                value |-> compare_spawnflag2(css_flag_list[i], csgo_flag_list[i])]]
            \o ZipEntries(css_flags, csgo_flags, Tail(order))

\* Empty categories are removed from the result; here they stay as empty sequences
\* and the result is None when all three are empty.
compare_spawnflags2(css_flags, csgo_flags, new_order, removed_order, common_order) ==
    LET d == [new |-> FlagLabels(csgo_flags, new_order),
              removed |-> FlagLabels(css_flags, removed_order),
              modified |-> BuildDict(ZipEntries(css_flags, csgo_flags, common_order))]
    IN IF d.new # <<>> \/ d.removed # <<>> \/ d.modified # <<>> THEN Some(d) ELSE None

SpawnflagsOutcomes2(css_flags, csgo_flags) ==
    LET css_keys == FlagValues(css_flags)
        csgo_keys == FlagValues(csgo_flags)
    IN {compare_spawnflags2(css_flags, csgo_flags, n, r, c) :
           n \in Orders(csgo_keys \ css_keys),
           r \in Orders(css_keys \ csgo_keys),
           c \in Orders(css_keys \cap csgo_keys)}

compare_io_item2(css_io, csgo_io) ==
    LET d == [type        |-> None,
              value_type  |-> AttrDiff(css_io.value_type, csgo_io.value_type),
              description |-> AttrDiff(css_io.description, csgo_io.description)]
    IN IF css_io.type # csgo_io.type
       THEN Some([type |-> Some([css |-> css_io.type, csgo |-> csgo_io.type]),
                  value_type |-> None,
                  description |-> None])
       ELSE IF \A f \in DOMAIN d : IsNone(d[f]) THEN None ELSE Some(d)

compare_io2(css_io, csgo_io, new_order, removed_order, common_order) ==
    LET entries == [i \in 1..Len(common_order) |->
                      LET css_io_item == DictGet(css_io, "IoKey", common_order[i])
                          csgo_io_item == DictGet(csgo_io, "IoKey", common_order[i])
                      IN [key |-> csgo_io_item.name,
                          value |-> compare_io_item2(css_io_item, csgo_io_item)]]
        d == [new |-> new_order, removed |-> removed_order, modified |-> BuildDict(entries)]
    IN IF d.new # <<>> \/ d.removed # <<>> \/ d.modified # <<>> THEN Some(d) ELSE None

IoOutcomes2(css_io, csgo_io) ==
    LET css_keys == DictKeys(css_io, "IoKey")
        csgo_keys == DictKeys(csgo_io, "IoKey")
    IN {compare_io2(css_io, csgo_io, n, r, c) :
           n \in Orders(csgo_keys \ css_keys),
           r \in Orders(css_keys \ csgo_keys),
           c \in Orders(css_keys \cap csgo_keys)}

EntityDiff2(css_entity, csgo_entity, prop_diff, spawnflag_diff, input_diff, output_diff) ==
    LET sorted_css_definitions == SortedDefinitions(css_entity.definitions)
        sorted_csgo_definitions == SortedDefinitions(csgo_entity.definitions)
        d == [class_type  |-> AttrDiff(css_entity.class_type, csgo_entity.class_type),
              description |-> AttrDiff(css_entity.description, csgo_entity.description),
              definitions |-> AttrDiff(sorted_css_definitions, sorted_csgo_definitions),
              properties  |-> prop_diff,
              spawnflags  |-> spawnflag_diff,
              inputs      |-> input_diff,
              outputs     |-> output_diff]
    IN IF \A f \in DOMAIN d : IsNone(d[f]) THEN None ELSE Some(d)

compare_entity2(css_entity, csgo_entity) ==
    {EntityDiff2(css_entity, csgo_entity, pd, sd, id, od) :
        pd \in PropertiesOutcomes2(css_entity.properties, csgo_entity.properties),
        sd \in SpawnflagsOutcomes2(css_entity.spawnflags, csgo_entity.spawnflags),
        id \in IoOutcomes2(css_entity.inputs, csgo_entity.inputs),
        od \in IoOutcomes2(css_entity.outputs, csgo_entity.outputs)}

\* Every report compare_fgds can return: one per choice of the iteration orders.
compare_fgds2(css_fgd_, csgo_fgd_) ==
    LET css_entity_names == EntityNames(css_fgd_)
        csgo_entity_names == EntityNames(csgo_fgd_)
        common_entities == css_entity_names \cap csgo_entity_names
        Diffs == [k \in common_entities |->
                    compare_entity2(NextWith(css_fgd_.entities, "EntityKey", k),
                                    NextWith(csgo_fgd_.entities, "EntityKey", k))]
    IN {[new_entities |-> new_order,
         removed_entities |-> removed_order,
         modified_entities |-> ModifiedEntities(css_fgd_, csgo_fgd_, order, diffs),
         editor_data_changes |-> editor] :
            new_order \in Orders(csgo_entity_names \ css_entity_names),
            removed_order \in Orders(css_entity_names \ csgo_entity_names),
            order \in Orders(common_entities),
            diffs \in Pick(Diffs),
            editor \in EditorDataOutcomes(css_fgd_.editor_data, csgo_fgd_.editor_data)}

-----------------------------------------------------------------------------
(* The parsed schemas main() hands to compare_fgds.  They are drawn from   *)
(* small pools; every schema drawn respects the parser's object model:     *)
(* entity names are unique ignoring case, property and input/output names  *)
(* are unique ignoring case within an entity, spawnflag values are         *)
(* integers, unique within an entity.                                      *)

MaxEntities == 2
MaxProps == 2
MaxFlags == 2
MaxIo == 2
MaxDefs == 2
MaxEditor == 2
MaxChoices == 2
MaxClock == 1

SeqsUpTo(S, n) == UNION {[1..k -> S] : k \in 0..n}

UniqueKeys(items, key) ==
    \A i, j \in 1..Len(items) : KeyOf(key, items[i]) = KeyOf(key, items[j]) => i = j

Prop(name, default_value, choices) ==
    [name |-> name, value_type |-> "integer", readonly |-> FALSE, report |-> FALSE,
     display_name |-> "Health", default_value |-> default_value, description |-> "",
     choices |-> choices]

Choice(value, display_name) == [value |-> value, display_name |-> display_name]

PropPool ==
    {Prop(<<"h", "p">>, "100", None),
     Prop(<<"h", "p">>, "200", None),
     [Prop(<<"H", "p">>, "100", None) EXCEPT !.readonly = TRUE],
     Prop(<<"t", "q">>, "100", None),
     Prop(<<"m", "d">>, "0", Some(<<Choice(0, "Off"), Choice(1, "On")>>))}

PropLists == {ps \in SeqsUpTo(PropPool, MaxProps) : UniqueKeys(ps, "PropKey")}

ChoicePool == {Choice(0, "Off"), Choice(1, "On"), Choice(1, "Auto"), Choice(2, "Hold")}

\* The choices of a property: None, or a list whose values are unique.
ChoiceLists ==
    {None} \cup {Some(cs) : cs \in {l \in SeqsUpTo(ChoicePool, MaxChoices) :
                                       l # <<>> /\ UniqueKeys(l, "ChoiceValue")}}

Flag(value, display_name, default_value) ==
    [value |-> value, display_name |-> display_name, default_value |-> default_value]

FlagPool ==
    {Flag(<<"1">>, "Locked", FALSE),
     Flag(<<"1">>, "Locked", TRUE),
     Flag(<<"1">>, "Bolted", FALSE),
     Flag(<<"2">>, "Silent", FALSE),
     Flag(<<"1", "6">>, "Locked", FALSE)}

FlagLists == {fs \in SeqsUpTo(FlagPool, MaxFlags) : UniqueKeys(fs, "FlagKey")}

Io(type, name, value_type) ==
    [type |-> type, name |-> name, value_type |-> value_type, description |-> ""]

InputPool ==
    {Io("FgdEntityInput", <<"O", "n">>, "void"),
     Io("FgdEntityInput", <<"o", "n">>, "void"),
     Io("FgdEntityInput", <<"O", "n">>, "integer"),
     Io("FgdEntityInput", <<"O", "f">>, "void")}

OutputPool ==
    {Io("FgdEntityOutput", <<"O", "n">>, "void"),
     Io("FgdEntityOutput", <<"o", "n">>, "void"),
     Io("FgdEntityOutput", <<"O", "n">>, "integer"),
     Io("FgdEntityOutput", <<"O", "f">>, "void")}

InputLists == {l \in SeqsUpTo(InputPool, MaxIo) : UniqueKeys(l, "IoKey")}

OutputLists == {l \in SeqsUpTo(OutputPool, MaxIo) : UniqueKeys(l, "IoKey")}

Def(name, args) == [name |-> name, args |-> args]

DefPool ==
    {Def(<<"b", "a", "s", "e">>, <<<<"A">>>>),
     Def(<<"b", "a", "s", "e">>, <<<<"B">>>>),
     Def(<<"s", "i", "z", "e">>, <<<<"8">>>>)}

DefLists == SeqsUpTo(DefPool, MaxDefs)

Entity(name, description) ==
    [name |-> name, class_type |-> "PointClass", description |-> description,
     definitions |-> <<>>, properties |-> <<>>, spawnflags |-> <<>>,
     inputs |-> <<>>, outputs |-> <<>>]

BaseEntity == Entity(<<"d", "r">>, "door")

\* Pairs of versions of one entity that differ in one of its parts.
EntityPairs ==
    {<<[BaseEntity EXCEPT !.properties = a], [BaseEntity EXCEPT !.properties = b]>> :
        a, b \in PropLists}
    \cup {<<[BaseEntity EXCEPT !.properties = <<Prop(<<"m", "d">>, "0", a)>>],
             [BaseEntity EXCEPT !.properties = <<Prop(<<"M", "d">>, "0", b)>>]>> :
        a, b \in ChoiceLists}
    \cup {<<[BaseEntity EXCEPT !.spawnflags = a], [BaseEntity EXCEPT !.spawnflags = b]>> :
        a, b \in FlagLists}
    \cup {<<[BaseEntity EXCEPT !.inputs = a], [BaseEntity EXCEPT !.inputs = b]>> :
        a, b \in InputLists}
    \cup {<<[BaseEntity EXCEPT !.outputs = a], [BaseEntity EXCEPT !.outputs = b]>> :
        a, b \in OutputLists}
    \cup {<<[BaseEntity EXCEPT !.inputs = a], [BaseEntity EXCEPT !.outputs = b]>> :
        a \in InputLists, b \in OutputLists}
    \cup {<<[BaseEntity EXCEPT !.definitions = a], [BaseEntity EXCEPT !.definitions = b]>> :
        a, b \in DefLists}
    \cup {<<[BaseEntity EXCEPT !.class_type = a], [BaseEntity EXCEPT !.class_type = b]>> :
        a, b \in {"PointClass", "SolidClass"}}

\* Entities of whole schemas: names that differ in case only, and new names.
EntityPool ==
    {Entity(<<"d", "r">>, "gate"),
     Entity(<<"D", "R">>, "door"),
     [Entity(<<"a", "m">>, "ammo") EXCEPT
         !.properties = <<Prop(<<"h", "p">>, "100", None)>>],
     Entity(<<"b", "x">>, "box")}

EntityLists == {es \in SeqsUpTo(EntityPool, MaxEntities) : UniqueKeys(es, "EntityKey")}

EditorData(class_type, name, data) ==
    [class_type |-> class_type, name |-> name, data |-> data]

EditorPool ==
    {EditorData("MaterialExclusion", "", "m1"),
     EditorData("MaterialExclusion", "", "m2"),
     EditorData("AutoVisGroup", "General", "v1")}

EditorLists == SeqsUpTo(EditorPool, MaxEditor)

Fgd(entities, editor_data) == [entities |-> entities, editor_data |-> editor_data]

\* The pairs (old schema, new schema) main() may load.
Inputs ==
    {<<Fgd(<<p[1]>>, <<>>), Fgd(<<p[2]>>, <<>>)>> : p \in EntityPairs}
    \cup {<<Fgd(a, <<>>), Fgd(b, <<>>)>> : a, b \in EntityLists}
    \cup {<<Fgd(<<BaseEntity>>, a), Fgd(<<BaseEntity>>, b)>> : a, b \in EditorLists}

\* datetime.now(), as a tick count.
Clock == 0..MaxClock

-----------------------------------------------------------------------------
(* main() of each script, after load_fgd: compare_fgds and the report.     *)

Init ==
    /\ \E p \in Inputs : css_fgd = p[1] /\ csgo_fgd = p[2]
    /\ pc = "loaded"
    /\ script = "none"
    /\ differences = None

\* src/fgdcomparator.py main()
main ==
    /\ pc = "loaded"
    /\ script' = "fgdcomparator"
    /\ IF compare_fgds_raises(css_fgd, csgo_fgd)
       THEN pc' = "error" /\ differences' = None
       ELSE /\ pc' = "done"
            /\ \E now \in Clock :
                 \E report \in compare_fgds(css_fgd, csgo_fgd, now) :
                    differences' = Some(report)
    /\ UNCHANGED <<css_fgd, csgo_fgd>>

\* src/csgo_to_css_comparison.py main()
main2 ==
    /\ pc = "loaded"
    /\ script' = "csgo_to_css_comparison"
    /\ pc' = "done"
    /\ \E report \in compare_fgds2(css_fgd, csgo_fgd) : differences' = Some(report)
    /\ UNCHANGED <<css_fgd, csgo_fgd>>

Next == main \/ main2

Spec == Init /\ [][Next]_vars

-----------------------------------------------------------------------------
(* The scoring of one entity diff, on its own: the diff compare_entity has   *)
(* collected is drawn from the diffs in which at most two kinds of change   *)
(* occur, each up to MaxCount times, with or without a class-type and a     *)
(* description change; the step is the tail of compare_entity.              *)

MaxCount == 11

Kinds ==
    {"base_added", "base_removed",
     "properties_new", "properties_removed", "properties_modified",
     "inputs_new", "inputs_removed", "inputs_modified",
     "outputs_new", "outputs_removed", "outputs_modified",
     "spawnflags_new", "spawnflags_removed", "spawnflags_modified"}

CountVectors ==
    {[k \in Kinds |-> IF k = k1 THEN n1 ELSE IF k = k2 THEN n2 ELSE 0] :
        k1, k2 \in Kinds, n1, n2 \in 0..MaxCount}

Items(n) == [i \in 1..n |-> IntStr(i)]

ModifiedItems(n) == [i \in 1..n |-> [key |-> IntStr(i), value |-> "changed"]]

PartDiff(new, removed, modified) ==
    IF new + removed + modified = 0 THEN None
    ELSE Some([new |-> Items(new), removed |-> Items(removed),
               modified |-> ModifiedItems(modified)])

CollectedDiff(class_changed, description_changed, v) ==
    [class_type  |-> IF class_changed
                     THEN Some([css |-> "PointClass", csgo |-> "SolidClass"]) ELSE None,
     description |-> IF description_changed
                     THEN Some([css |-> "door", csgo |-> "gate"]) ELSE None,
     definitions |-> IF v["base_added"] + v["base_removed"] = 0 THEN None
                     ELSE Some([css |-> Items(v["base_removed"]),
                                csgo |-> Items(v["base_added"]),
                                changes |-> [added |-> Items(v["base_added"]),
                                             removed |-> Items(v["base_removed"])]]),
     properties  |-> PartDiff(v["properties_new"], v["properties_removed"],
                              v["properties_modified"]),
     spawnflags  |-> PartDiff(v["spawnflags_new"], v["spawnflags_removed"],
                              v["spawnflags_modified"]),
     inputs      |-> PartDiff(v["inputs_new"], v["inputs_removed"], v["inputs_modified"]),
     outputs     |-> PartDiff(v["outputs_new"], v["outputs_removed"],
                              v["outputs_modified"])]

InitScore ==
    /\ css_fgd = Fgd(<<>>, <<>>)
    /\ csgo_fgd = Fgd(<<>>, <<>>)
    /\ script = "fgdcomparator"
    /\ pc = "collected"
    /\ \E class_changed, description_changed \in BOOLEAN : \E v \in CountVectors :
          differences = Some(CollectedDiff(class_changed, description_changed, v))

\* src/fgdcomparator.py compare_entity, from `if differences:` to its return.
score ==
    /\ pc = "collected"
    /\ pc' = "scored"
    /\ differences' = Summarise(differences[1])
    /\ UNCHANGED <<css_fgd, csgo_fgd, script>>

NextScore == score

SpecScore == InitScore /\ [][NextScore]_vars

-----------------------------------------------------------------------------
(* Properties of the reports.                                              *)

Done == pc = "done"

Report == differences[1]

IsFgdcomparator == script = "fgdcomparator"

IsCsgoToCss == script = "csgo_to_css_comparison"

MatchedKeys == EntityNames(css_fgd) \cap EntityNames(csgo_fgd)

CssEntity(k) == NextWith(css_fgd.entities, "EntityKey", k)

CsgoEntity(k) == NextWith(csgo_fgd.entities, "EntityKey", k)

\* The diff a report holds under an entity name, None when there is no such key.
EntityDiffIn(report, name) ==
    IF name \in OutKeys(report.modified_entities)
    THEN Some(OutGet(report.modified_entities, name))
    ELSE None

\* One part ("properties", "spawnflags", "inputs", "outputs") of an entity diff.
PartOf(entity_diff, part) == IF IsNone(entity_diff) THEN None ELSE entity_diff[1][part]

CountNew(part_diff) == IF IsNone(part_diff) THEN 0 ELSE Len(part_diff[1].new)

CountRemoved(part_diff) == IF IsNone(part_diff) THEN 0 ELSE Len(part_diff[1].removed)

Parts == {"properties", "spawnflags", "inputs", "outputs"}

\* The reports of the comparison in the other direction, by the script that ran.
ReverseReports ==
    IF IsFgdcomparator THEN compare_fgds(csgo_fgd, css_fgd, 0)
    ELSE compare_fgds2(csgo_fgd, css_fgd)

\* C1: comparing a schema with itself yields an empty diff - no new, removed or
\* modified entity, and no backward-porting issue or editor-data change.
C1_Idempotence ==
    (Done /\ css_fgd = csgo_fgd) =>
        /\ Report.new_entities = <<>>
        /\ Report.removed_entities = <<>>
        /\ Report.modified_entities = <<>>
        /\ IsFgdcomparator => Report.backward_porting_issues = <<>>
        /\ IsCsgoToCss => /\ Report.editor_data_changes.new = <<>>
                          /\ Report.editor_data_changes.removed = <<>>
                          /\ Report.editor_data_changes.modified = <<>>

C1_Witness ==
    /\ Done
    /\ IsFgdcomparator
    /\ css_fgd = csgo_fgd
    /\ \E e \in Range(css_fgd.entities) :
          /\ \E q \in Range(e.properties) : q.name # Lower(q.name)
          /\ Len(e.properties) = 2
    /\ Report.modified_entities = <<>>

\* C2: the number of added entries of compare(A, B) is the number of removed
\* entries of compare(B, A) and conversely, for entities and, within every matched
\* entity, for properties, inputs, outputs and spawnflags.
C2_SymmetricCardinality ==
    Done =>
        \A rev \in ReverseReports :
            /\ Len(Report.new_entities) = Len(rev.removed_entities)
            /\ Len(Report.removed_entities) = Len(rev.new_entities)
            /\ \A k \in MatchedKeys : \A part \in Parts :
                  LET fwd_part == PartOf(EntityDiffIn(Report, CsgoEntity(k).name), part)
                      rev_part == PartOf(EntityDiffIn(rev, CssEntity(k).name), part)
                  IN /\ CountNew(fwd_part) = CountRemoved(rev_part)
                     /\ CountRemoved(fwd_part) = CountNew(rev_part)

C2_Witness ==
    /\ Done
    /\ \E k \in MatchedKeys :
          LET d == PartOf(EntityDiffIn(Report, CsgoEntity(k).name), "spawnflags")
          IN CountNew(d) = 2 /\ CountRemoved(d) = 1

\* C4: entities whose names differ only in letter case are one entity - neither
\* name is listed as new or removed, every key of modified_entities is the name as
\* written in the new schema, and a pair that differs in class type or description
\* is reported under that name.
C4_CaseInsensitive ==
    Done =>
        /\ \A a \in Range(css_fgd.entities), b \in Range(csgo_fgd.entities) :
              Lower(a.name) = Lower(b.name) =>
                 /\ {a.name, b.name, Lower(a.name)}
                      \cap (Range(Report.new_entities) \cup Range(Report.removed_entities))
                      = {}
                 /\ (a.description # b.description \/ a.class_type # b.class_type)
                      => b.name \in OutKeys(Report.modified_entities)
                 /\ a.name # b.name => a.name \notin OutKeys(Report.modified_entities)
        /\ OutKeys(Report.modified_entities) \subseteq {CsgoEntity(k).name : k \in MatchedKeys}

C4_Witness ==
    /\ Done
    /\ \E a \in Range(css_fgd.entities), b \in Range(csgo_fgd.entities) :
          /\ a.name # b.name
          /\ b.name # Lower(b.name)
          /\ Lower(a.name) = Lower(b.name)
          /\ a.description # b.description
          /\ b.name \in OutKeys(Report.modified_entities)

IssuesOf(k, severity) ==
    {i \in 1..Len(Report.backward_porting_issues) :
        /\ Report.backward_porting_issues[i].entity = k
        /\ Report.backward_porting_issues[i].severity = severity}

\* C6: an entity of the new schema only gets exactly one issue, of severity High,
\* and no Medium one; an entity of both schemas never gets a High one.
C6_NewEntityIssue ==
    (Done /\ IsFgdcomparator) =>
        /\ \A k \in EntityNames(csgo_fgd) \ EntityNames(css_fgd) :
              /\ Cardinality(IssuesOf(k, "High")) = 1
              /\ IssuesOf(k, "Medium") = {}
        /\ \A k \in MatchedKeys : IssuesOf(k, "High") = {}

C6_Witness ==
    /\ Done
    /\ IsFgdcomparator
    /\ \E k \in EntityNames(csgo_fgd) \ EntityNames(css_fgd) :
          /\ CsgoEntity(k).properties # <<>>
          /\ Cardinality(IssuesOf(k, "High")) = 1
    /\ \E k \in MatchedKeys : CssEntity(k).name # CsgoEntity(k).name

IsSortedStrs(seq) == \A i, j \in 1..Len(seq) : i < j => StrLess(seq[i], seq[j])

\* Spawnflag entries (a flag, or a "value (name)" label) in ascending bit value.
IsSortedFlags(seq) ==
    \A i, j \in 1..Len(seq) : i < j => ParseInt(seq[i].value) < ParseInt(seq[j].value)

NewOf(part_diff) == IF IsNone(part_diff) THEN <<>> ELSE part_diff[1].new

RemovedOf(part_diff) == IF IsNone(part_diff) THEN <<>> ELSE part_diff[1].removed

ModifiedOf(part_diff) == IF IsNone(part_diff) THEN <<>> ELSE part_diff[1].modified

Reverse(seq) == [i \in 1..Len(seq) |-> seq[Len(seq) + 1 - i]]

ReverseEntity(e) ==
    [e EXCEPT !.properties = Reverse(@), !.spawnflags = Reverse(@),
              !.inputs = Reverse(@), !.outputs = Reverse(@)]

\* The schema with its entity, property, spawnflag and input/output lists reversed.
Reordered(fgd) ==
    [fgd EXCEPT !.entities = Reverse([i \in 1..Len(@) |-> ReverseEntity(@[i])])]

\* The report without its comparison date.
Undated(report) ==
    IF "metadata" \in DOMAIN report
    THEN [report EXCEPT !.metadata.comparison_date = 0]
    ELSE report

\* Every report the script that ran can produce for the loaded schemas and for
\* their reordering, the date left aside.
PossibleReports ==
    IF IsFgdcomparator
    THEN {Undated(r) : r \in compare_fgds(css_fgd, csgo_fgd, 0)
                            \cup compare_fgds(Reordered(css_fgd), Reordered(csgo_fgd), 0)}
    ELSE compare_fgds2(css_fgd, csgo_fgd)
         \cup compare_fgds2(Reordered(css_fgd), Reordered(csgo_fgd))

\* C3: the report is determined by the two schemas - the same whenever the
\* comparison is repeated and however the input collections are ordered - and
\* every added and removed list is sorted (names lexicographically, spawnflags by
\* bit value).  The comparison date is left out of the comparison.
C3_Deterministic ==
    Done =>
        /\ PossibleReports = {Undated(Report)}
        /\ IsSortedStrs(Report.new_entities)
        /\ IsSortedStrs(Report.removed_entities)
        /\ \A i \in 1..Len(Report.modified_entities) :
              LET d == Report.modified_entities[i].value
              IN /\ \A part \in {"properties", "inputs", "outputs"} :
                       /\ IsSortedStrs(NewOf(d[part]))
                       /\ IsSortedStrs(RemovedOf(d[part]))
                 /\ IsSortedFlags(NewOf(d.spawnflags))
                 /\ IsSortedFlags(RemovedOf(d.spawnflags))

MediumProperties(k) ==
    {Lower(Report.backward_porting_issues[i].property[1]) : i \in IssuesOf(k, "Medium")}

\* C5: for every entity of both schemas, the properties that have a Medium issue
\* are the properties listed as new in that entity's properties diff, letter case
\* of the names left aside.
C5_IssuesMatchNewProperties ==
    (Done /\ IsFgdcomparator) =>
        \A k \in MatchedKeys :
            MediumProperties(k)
              = Range(NewOf(PartOf(EntityDiffIn(Report, CsgoEntity(k).name), "properties")))

PropKeys(e) == {Lower(q.name) : q \in Range(e.properties)}

PropOf(e, key) == CHOOSE q \in Range(e.properties) : Lower(q.name) = key

SixFields ==
    {"value_type", "readonly", "report", "display_name", "default_value", "description"}

SixFieldsDiffer(a, b) == \E f \in SixFields : a[f] # b[f]

\* The Python list the script compares for a property's choices.
ComparedChoices(q) ==
    IF IsFgdcomparator THEN q.choices
    ELSE IF IsNone(q.choices) THEN <<>>
    ELSE LET cs == q.choices[1]
         IN SortBy(cs, [i \in 1..Len(cs) |-> [j \in 1..Len(cs) |-> cs[i].value < cs[j].value]])

ChoicesDiffer(a, b) == ComparedChoices(a) # ComparedChoices(b)

\* The properties diff of matched entity k lists the right added and removed keys,
\* and as modified the properties of both that differ (in their choice lists too
\* when with_choices), each with its
\* differing fields as (old, new) pairs.
PropertiesDiffIs(k, with_choices) ==
    LET a == CssEntity(k)
        b == CsgoEntity(k)
        d == PartOf(EntityDiffIn(Report, b.name), "properties")
        both == PropKeys(a) \cap PropKeys(b)
        Differ(p, q) == SixFieldsDiffer(p, q) \/ (with_choices /\ ChoicesDiffer(p, q))
    IN /\ Range(NewOf(d)) = PropKeys(b) \ PropKeys(a)
       /\ Len(NewOf(d)) = Cardinality(PropKeys(b) \ PropKeys(a))
       /\ Range(RemovedOf(d)) = PropKeys(a) \ PropKeys(b)
       /\ Len(RemovedOf(d)) = Cardinality(PropKeys(a) \ PropKeys(b))
       /\ OutKeys(ModifiedOf(d))
            = {PropOf(b, key).name : key \in {x \in both : Differ(PropOf(a, x), PropOf(b, x))}}
       /\ \A key \in both :
             PropOf(b, key).name \in OutKeys(ModifiedOf(d)) =>
                \A f \in SixFields :
                   OutGet(ModifiedOf(d), PropOf(b, key).name)[f]
                     = IF PropOf(a, key)[f] # PropOf(b, key)[f]
                       THEN <<[css |-> PropOf(a, key)[f], csgo |-> PropOf(b, key)[f]]>>
                       ELSE <<>>

\* C8 as stated: modified are exactly the properties of both with a differing
\* value type, readonly, report, display name, default value or description.
C8_PropertiesDiff_AsStated ==
    Done => \A k \in MatchedKeys : PropertiesDiffIs(k, FALSE)

\* C8 as amended: modified are exactly the properties of both with a differing
\* value type, readonly, report, display name, default value or description, or
\* with differing choice lists (as the script compares them).
C8_PropertiesDiff ==
    Done => \A k \in MatchedKeys : PropertiesDiffIs(k, TRUE)

C8_Witness ==
    /\ Done
    /\ \E k \in MatchedKeys :
          LET d == PartOf(EntityDiffIn(Report, CsgoEntity(k).name), "properties")
          IN /\ NewOf(d) = <<<<"t", "q">>>>
             /\ RemovedOf(d) = <<>>
             /\ OutKeys(ModifiedOf(d)) = {<<"h", "p">>}
             /\ OutGet(ModifiedOf(d), <<"h", "p">>).default_value
                  = <<[css |-> "100", csgo |-> "200"]>>

FlagValuesOf(e) == {ParseInt(f.value) : f \in Range(e.spawnflags)}

FlagOf(e, v) == CHOOSE f \in Range(e.spawnflags) : ParseInt(f.value) = v

\* The (bit value, display name) pairs of a list of spawnflag entries.
FlagEntries(seq) ==
    {<<ParseInt(seq[i].value), seq[i].display_name>> : i \in 1..Len(seq)}

\* The bit value a key of the 'modified' spawnflags carries.
ModifiedFlagValue(key) == IF IsFgdcomparator THEN ParseInt(key) ELSE ParseInt(key.value)

\* C9: spawnflags are matched by bit value - a value of the old schema only is
\* listed as removed and one of the new schema only as added, each with its
\* display name; a value of both is in neither list, and is in 'modified', under a
\* key carrying the value, exactly when display name or default state differs.
C9_SpawnflagsByValue ==
    Done =>
        \A k \in MatchedKeys :
            LET a == CssEntity(k)
                b == CsgoEntity(k)
                d == PartOf(EntityDiffIn(Report, b.name), "spawnflags")
                both == FlagValuesOf(a) \cap FlagValuesOf(b)
            IN /\ FlagEntries(RemovedOf(d))
                    = {<<v, FlagOf(a, v).display_name>> : v \in FlagValuesOf(a) \ FlagValuesOf(b)}
               /\ FlagEntries(NewOf(d))
                    = {<<v, FlagOf(b, v).display_name>> : v \in FlagValuesOf(b) \ FlagValuesOf(a)}
               /\ Len(RemovedOf(d)) = Cardinality(FlagValuesOf(a) \ FlagValuesOf(b))
               /\ Len(NewOf(d)) = Cardinality(FlagValuesOf(b) \ FlagValuesOf(a))
               /\ {ModifiedFlagValue(key) : key \in OutKeys(ModifiedOf(d))}
                    = {v \in both :
                         \/ FlagOf(a, v).display_name # FlagOf(b, v).display_name
                         \/ FlagOf(a, v).default_value # FlagOf(b, v).default_value}
               /\ Len(ModifiedOf(d)) = Cardinality(OutKeys(ModifiedOf(d)))

\* Bit 16 "Locked" was removed while bit 1 "Locked" stays and changes its default.
C9_Witness ==
    /\ Done
    /\ \E k \in MatchedKeys :
          LET d == PartOf(EntityDiffIn(Report, CsgoEntity(k).name), "spawnflags")
          IN /\ FlagEntries(RemovedOf(d)) = {<<16, "Locked">>}
             /\ NewOf(d) = <<>>
             /\ {ModifiedFlagValue(key) : key \in OutKeys(ModifiedOf(d))} = {1}
             /\ FlagOf(CssEntity(k), 1).display_name = FlagOf(CsgoEntity(k), 1).display_name

ChoiceSet(q) == Range(q.choices[1])

\* The choices a reported choice list holds.
ReportedChoices(x) ==
    IF IsFgdcomparator THEN (IF IsNone(x) THEN {} ELSE Range(x[1])) ELSE Range(x)

\* C10: choice lists are compared as sets - two matched properties with the same
\* choices in any order show no choices difference, and two with different choice
\* sets show one that holds the full old and new lists.
C10_ChoicesAsSets ==
    Done =>
        \A k \in MatchedKeys :
            LET a == CssEntity(k)
                b == CsgoEntity(k)
                d == PartOf(EntityDiffIn(Report, b.name), "properties")
            IN \A key \in PropKeys(a) \cap PropKeys(b) :
                  LET p == PropOf(a, key)
                      q == PropOf(b, key)
                      entry == IF q.name \in OutKeys(ModifiedOf(d))
                               THEN OutGet(ModifiedOf(d), q.name).choices
                               ELSE None
                  IN (~IsNone(p.choices) /\ ~IsNone(q.choices)) =>
                        IF ChoiceSet(p) = ChoiceSet(q)
                        THEN IsNone(entry)
                        ELSE /\ ~IsNone(entry)
                             /\ ReportedChoices(entry[1].css) = ChoiceSet(p)
                             /\ ReportedChoices(entry[1].csgo) = ChoiceSet(q)

LenNew(part_diff) == IF IsNone(part_diff) THEN 0 ELSE Len(part_diff[1].new)

LenRemoved(part_diff) == IF IsNone(part_diff) THEN 0 ELSE Len(part_diff[1].removed)

LenModified(part_diff) == IF IsNone(part_diff) THEN 0 ELSE Len(part_diff[1].modified)

\* Twice the score of C7, from the lists of an entity diff.
StatedScore2(d) ==
    (IF IsNone(d.class_type) THEN 0 ELSE 6)
    + (IF IsNone(d.definitions) THEN 0
       ELSE 4 * (Len(d.definitions[1].changes.added) + Len(d.definitions[1].changes.removed)))
    + 4 * (LenNew(d.properties) + LenRemoved(d.properties))
    + 2 * LenModified(d.properties)
    + 3 * (LenNew(d.inputs) + LenRemoved(d.inputs) + LenNew(d.outputs) + LenRemoved(d.outputs))
    + (LenModified(d.inputs) + LenModified(d.outputs))
    + 2 * (LenNew(d.spawnflags) + LenRemoved(d.spawnflags))
    + LenModified(d.spawnflags)

StatedBucket(score2) ==
    IF score2 > 40 THEN "High"
    ELSE IF score2 > 20 /\ score2 <= 40 THEN "Medium"
    ELSE "Low"

Scored == pc = "scored" /\ ~IsNone(differences)

\* C7: the complexity of a modified entity is the bucket of its score - 3 for a
\* class-type change, 2 per added or removed base, 2 per added or removed and 1
\* per modified property, 1.5 per added or removed and 0.5 per modified input or
\* output, 1 per added or removed and 0.5 per modified spawnflag; High above 20,
\* Medium above 10 up to 20, Low otherwise - and its change summary counts the
\* entries of the diff lists.
C7_ComplexityBucket ==
    Scored =>
        /\ Report.backward_porting_complexity = StatedBucket(StatedScore2(Report))
        /\ \A part \in Parts :
              Report.changes_summary[part]
                = [new |-> LenNew(Report[part]),
                   removed |-> LenRemoved(Report[part]),
                   modified |-> LenModified(Report[part])]

\* A score of exactly 20, with halves in it, is Medium.
C7_Witness ==
    /\ Scored
    /\ StatedScore2(Report) = 40
    /\ LenNew(Report.inputs) = 11
    /\ LenModified(Report.spawnflags) = 1
    /\ ~IsNone(Report.class_type)
    /\ Report.backward_porting_complexity = "Medium"

-----------------------------------------------------------------------------
(* Definition clauses.                                                     *)

\* The multiset of the clauses of a list: each clause with its number of occurrences.
DefBag(defs) ==
    [d \in Range(defs) |-> Cardinality({i \in 1..Len(defs) : defs[i] = d})]

HasDefinitionsEntry(k) ==
    ~IsNone(PartOf(EntityDiffIn(Report, CsgoEntity(k).name), "definitions"))

\* C11: a matched entity has a definitions entry in its diff if and only if the
\* multisets of its definition clauses differ between the two schemas; a pure
\* reordering gives no entry, a changed non-base clause gives one.
C11_DefinitionsAsMultiset ==
    Done => \A k \in MatchedKeys :
               HasDefinitionsEntry(k)
                 <=> DefBag(CssEntity(k).definitions) # DefBag(CsgoEntity(k).definitions)

-----------------------------------------------------------------------------
(* Signals that change direction.                                          *)

InputKeys(e) == DictKeys(e.inputs, "IoKey")

OutputKeys(e) == DictKeys(e.outputs, "IoKey")

\* The names that are an input (and no output) of the entity in one schema and an
\* output (and no input) of it in the other.
DirectionChanged(k) ==
    LET a == CssEntity(k)
        b == CsgoEntity(k)
    IN ((InputKeys(a) \ OutputKeys(a)) \cap (OutputKeys(b) \ InputKeys(b)))
       \cup ((OutputKeys(a) \ InputKeys(a)) \cap (InputKeys(b) \ OutputKeys(b)))

\* The entity diff holds, under the name n, a modified signal with a 'type' entry.
TypeMismatchReported(entity_diff, n) ==
    \E part \in {"inputs", "outputs"} :
        LET modified == ModifiedOf(PartOf(entity_diff, part))
        IN \E key \in OutKeys(modified) :
              /\ Lower(key) = n
              /\ "type" \in DOMAIN OutGet(modified, key)
              /\ ~IsNone(OutGet(modified, key).type)

\* C12: a name that is an input of a matched entity in one schema and an output of
\* it in the other is reported as a type mismatch on that name.
C12_DirectionMismatchReported ==
    Done => \A k \in MatchedKeys :
               \A n \in DirectionChanged(k) :
                  TypeMismatchReported(EntityDiffIn(Report, CsgoEntity(k).name), n)

-----------------------------------------------------------------------------
(* Schemas outside the parser's object model: two items of one identity in  *)
(* one list, and spawnflags whose value is no integer.  compare_fgds takes  *)
(* whatever lists the Fgd objects hold.                                     *)

DuplicatePropLists == {ps \in SeqsUpTo(PropPool, MaxProps) : ~UniqueKeys(ps, "PropKey")}

DuplicateFlagLists == {fs \in SeqsUpTo(FlagPool, MaxFlags) : ~UniqueKeys(fs, "FlagKey")}

DuplicateInputLists == {l \in SeqsUpTo(InputPool, MaxIo) : ~UniqueKeys(l, "IoKey")}

DuplicateOutputLists == {l \in SeqsUpTo(OutputPool, MaxIo) : ~UniqueKeys(l, "IoKey")}

DuplicateEntityLists ==
    {es \in SeqsUpTo(EntityPool, MaxEntities) : ~UniqueKeys(es, "EntityKey")}

\* A spawnflag whose value int() rejects.
BadFlag == Flag(<<"x">>, "Broken", FALSE)

NonIntegerFlagLists ==
    {fs \in SeqsUpTo(FlagPool \cup {BadFlag}, MaxFlags) :
        BadFlag \in Range(fs) /\ UniqueKeys(ValidFlags(fs), "FlagKey")}

\* One part of the entity is malformed in one schema, well-formed in the other.
BothWays(field, malformed, wellformed) ==
    {<<[BaseEntity EXCEPT ![field] = a], [BaseEntity EXCEPT ![field] = b]>> :
        a \in malformed, b \in wellformed}
    \cup {<<[BaseEntity EXCEPT ![field] = b], [BaseEntity EXCEPT ![field] = a]>> :
        a \in malformed, b \in wellformed}

DuplicatePairs ==
    BothWays("properties", DuplicatePropLists, PropLists)
    \cup BothWays("spawnflags", DuplicateFlagLists, FlagLists)
    \cup BothWays("inputs", DuplicateInputLists, InputLists)
    \cup BothWays("outputs", DuplicateOutputLists, OutputLists)

NonIntegerPairs == BothWays("spawnflags", NonIntegerFlagLists, FlagLists)

MalformedInputs ==
    {<<Fgd(<<p[1]>>, <<>>), Fgd(<<p[2]>>, <<>>)>> : p \in DuplicatePairs \cup NonIntegerPairs}
    \cup {<<Fgd(a, <<>>), Fgd(b, <<>>)>> : a \in DuplicateEntityLists, b \in EntityLists}
    \cup {<<Fgd(b, <<>>), Fgd(a, <<>>)>> : a \in DuplicateEntityLists, b \in EntityLists}

InitMalformed ==
    /\ \E p \in MalformedInputs : css_fgd = p[1] /\ csgo_fgd = p[2]
    /\ pc = "loaded"
    /\ script = "none"
    /\ differences = None

SpecMalformed == InitMalformed /\ [][Next]_vars

Ran == pc # "loaded"

Failed == pc = "error" /\ IsNone(differences)

DuplicateIn(items, key) == ~UniqueKeys(items, key)

\* Two entities, or two properties, inputs or outputs of one entity, of the same
\* name ignoring case, or two spawnflags of one entity of the same bit value.
HasDuplicateIdentity(fgd) ==
    \/ DuplicateIn(fgd.entities, "EntityKey")
    \/ \E e \in Range(fgd.entities) :
          \/ DuplicateIn(e.properties, "PropKey")
          \/ DuplicateIn(e.inputs, "IoKey")
          \/ DuplicateIn(e.outputs, "IoKey")
          \/ DuplicateIn(ValidFlags(e.spawnflags), "FlagKey")

\* C13: when one of the schemas holds a duplicate identity, the comparison ends
\* with an error and no report.
C13_DuplicateFailsFast ==
    (Ran /\ (HasDuplicateIdentity(css_fgd) \/ HasDuplicateIdentity(csgo_fgd))) => Failed

HasNonIntegerFlag(fgd) ==
    \E e \in Range(fgd.entities) : \E f \in Range(e.spawnflags) : ~IsIntText(f.value)

\* The schema with the spawnflags of non-integer value taken out.
WithoutNonIntegerFlags(fgd) ==
    [entities |-> [i \in 1..Len(fgd.entities) |->
                     [fgd.entities[i] EXCEPT
                         !.spawnflags = SelectSeq(fgd.entities[i].spawnflags,
                                                  LAMBDA f : IsIntText(f.value))]],
     editor_data |-> fgd.editor_data]

\* What the script that ran can report on the schemas without those flags.
ReportsWithoutNonIntegerFlags ==
    LET a == WithoutNonIntegerFlags(css_fgd)
        b == WithoutNonIntegerFlags(csgo_fgd)
    IN IF IsFgdcomparator THEN UNION {compare_fgds(a, b, now) : now \in Clock}
       ELSE compare_fgds2(a, b)

\* C14: a spawnflag of non-integer value does not abort the run: a report is
\* returned, and it is a report of the schemas without that flag.
C14_NonIntegerFlagSkipped ==
    (Ran /\ (HasNonIntegerFlag(css_fgd) \/ HasNonIntegerFlag(csgo_fgd)))
        => (Done /\ Report \in ReportsWithoutNonIntegerFlags)

=============================================================================
